---- MODULE Spec2Model ----
(***************************************************************************)
(* Model of the useGeminiLive hook (src/hooks/useGeminiLive.ts): the       *)
(* session lifecycle (connect / disconnect and the transport callbacks),   *)
(* the capture-frame callback with its voice-activity logic, the playback  *)
(* scheduler and the visual source.                                        *)
(*                                                                         *)
(* The hook runs on a single-threaded event loop.  One action of the model *)
(* is one run-to-completion segment of a callback or of an async function: *)
(* the code between two awaits.  A suspended async function is a record    *)
(* kept in a variable (connectPc, disconnects, handlers, cameraPending).  *)
(* A continuation that resumes in a microtask (the await of the already    *)
(* resolved decodeAudioData promise) runs before any other task.           *)
(*                                                                         *)
(* Operations are written as operators on a record of the whole state      *)
(* (State gathers the variables, Commit writes a record back), so that a   *)
(* handler that calls disconnect() is the composition of its own           *)
(* assignments with the first segment of disconnect.                       *)
(***************************************************************************)
EXTENDS Integers, FiniteSets, Sequences, TLC

\* ---- bounds of the model ----
MaxConnects == 2        \* connect() invocations of the lifecycle specifications
MaxSessions == 3        \* session ids, 1..MaxSessions
MaxPending == 2         \* disconnect() invocations suspended at the same time
MaxChunks == 2          \* audio chunks received, hence playback sources
MaxClock == 2           \* largest value of an output clock
MaxDur == 2             \* largest duration of one chunk
MaxVideo == 1           \* camera streams acquired
MaxStreams == 2         \* visual streams of the visual-source specification
FenceChunks == 1        \* audio chunks received in the fencing specification
VadChunks == 1          \* audio chunks received in the voice-activity specification
MaxSamples == 2         \* samples in one buffer handed to createPcmBlob
SampleUnit == 5         \* a linear sample is n / SampleUnit, n in -SampleUnit..SampleUnit

\* ---- program constants ----
TLow == 12              \* 0.012, speech threshold while the AI is silent (x1000)
THigh == 30             \* 0.03, speech threshold while the AI is playing (x1000)
SustainedRun == 2       \* ducking needs speechAccumulator > 2
VolumeGate == 10        \* 0.01, energy above which the capture interval is short
ShortInterval == 1      \* 500 ms, in units of 500 ms
LongInterval == 4       \* 2000 ms, in units of 500 ms
GroundingDelay == 2     \* 6000 ms, in units of 3000 ms
PcmScale == 32768       \* the factor of createPcmBlob
Int16Modulus == 65536   \* 2^16, the width of an Int16Array element

\* now - lastSendTime when no frame was sent by this run of the loop: more
\* than any interval
Never == LongInterval + 1

Sessions == 1..MaxSessions
Chunks == 1..MaxChunks
Videos == 1..MaxStreams
\* audio contexts created by connect c: the input and the output context
InCtx(c) == 2 * c - 1
OutCtx(c) == 2 * c
Ctxs == 1..(2 * MaxSessions)
\* energy readings (rms x1000): silence, between the thresholds, loud
Energies == {0, 20, 50}
Durations == 1..MaxDur
\* a suspended disconnect(): the await it is at (closing the input or the
\* output context) and the connect() that awaits it (0: nobody)
DiscKinds == [pc : {"input", "output"}, owner : 0..MaxSessions]

RECURSIVE Sum(_, _)
Sum(f, S) == IF S = {} THEN 0
             ELSE LET x == CHOOSE y \in S : TRUE IN f[x] + Sum(f, S \ {x})

Max(a, b) == IF a >= b THEN a ELSE b

VARIABLES
  \* React state
  connectionState, error, groundingMetadata, isMuted, isVideoActive,
  videoSource, isUserSpeaking, isAiSpeaking,
  \* refs
  inputAudioContextRef, outputAudioContextRef, scriptProcessorRef,
  volumeGainNodeRef, mediaStreamRef, sourcesRef, videoStreamRef,
  currentVolumeRef, activeSessionRef, nextStartTimeRef, currentSessionIdRef,
  groundingTimeoutRef, silenceTimerRef, aiSpeakingTimerRef,
  speechAccumulatorRef,
  \* the time since the grounding timer was last set
  groundingAge,
  \* platform objects
  ctxState, ctxCloses, micState, micStops, trackEnabled, videoState,
  videoStops, transport, gain, processor, currentTime, srcInfo, stoppedSrc,
  endedPending,
  \* suspended async functions and counters
  connectPc, disconnects, handlers, cameraPending, nConnects, nChunks, nVideo,
  screenPending, videoKind, elapsed, sinceSent,
  \* createPcmBlob: the samples handed in and the 16-bit values stored
  pcmData, pcmInt16,
  \* observation
  thrown, lastSeg, tornDown, failed, cancelled, flushed, imageSent, audioSent,
  frameFailed

vars == <<connectionState, error, groundingMetadata, isMuted, isVideoActive,
  videoSource, isUserSpeaking, isAiSpeaking,
  inputAudioContextRef, outputAudioContextRef, scriptProcessorRef,
  volumeGainNodeRef, mediaStreamRef, sourcesRef, videoStreamRef,
  currentVolumeRef, activeSessionRef, nextStartTimeRef, currentSessionIdRef,
  groundingTimeoutRef, silenceTimerRef, aiSpeakingTimerRef,
  speechAccumulatorRef, groundingAge,
  ctxState, ctxCloses, micState, micStops, trackEnabled, videoState,
  videoStops, transport, gain, processor, currentTime, srcInfo, stoppedSrc,
  endedPending,
  connectPc, disconnects, handlers, cameraPending, nConnects, nChunks, nVideo,
  screenPending, videoKind, elapsed, sinceSent, pcmData, pcmInt16,
  thrown, lastSeg, tornDown, failed, cancelled, flushed, imageSent, audioSent,
  frameFailed>>

\* the whole state as one record, as a step finds it: no frame sent yet in
\* the step
State ==
  [connectionState |-> connectionState, error |-> error,
   groundingMetadata |-> groundingMetadata, isMuted |-> isMuted,
   isVideoActive |-> isVideoActive, videoSource |-> videoSource,
   isUserSpeaking |-> isUserSpeaking, isAiSpeaking |-> isAiSpeaking,
   inputAudioContextRef |-> inputAudioContextRef,
   outputAudioContextRef |-> outputAudioContextRef,
   scriptProcessorRef |-> scriptProcessorRef,
   volumeGainNodeRef |-> volumeGainNodeRef,
   mediaStreamRef |-> mediaStreamRef, sourcesRef |-> sourcesRef,
   videoStreamRef |-> videoStreamRef, currentVolumeRef |-> currentVolumeRef,
   activeSessionRef |-> activeSessionRef,
   nextStartTimeRef |-> nextStartTimeRef,
   currentSessionIdRef |-> currentSessionIdRef,
   groundingTimeoutRef |-> groundingTimeoutRef,
   groundingAge |-> groundingAge,
   pcmData |-> pcmData, pcmInt16 |-> pcmInt16,
   silenceTimerRef |-> silenceTimerRef,
   aiSpeakingTimerRef |-> aiSpeakingTimerRef,
   speechAccumulatorRef |-> speechAccumulatorRef,
   ctxState |-> ctxState, ctxCloses |-> ctxCloses, micState |-> micState,
   micStops |-> micStops, trackEnabled |-> trackEnabled,
   videoState |-> videoState, videoStops |-> videoStops,
   transport |-> transport, gain |-> gain, processor |-> processor,
   currentTime |-> currentTime, srcInfo |-> srcInfo,
   stoppedSrc |-> stoppedSrc, endedPending |-> endedPending,
   connectPc |-> connectPc, disconnects |-> disconnects,
   handlers |-> handlers, cameraPending |-> cameraPending,
   nConnects |-> nConnects, nChunks |-> nChunks, nVideo |-> nVideo,
   thrown |-> thrown, lastSeg |-> lastSeg, tornDown |-> tornDown,
   failed |-> failed, cancelled |-> cancelled, flushed |-> flushed,
   screenPending |-> screenPending, videoKind |-> videoKind,
   elapsed |-> elapsed, sinceSent |-> sinceSent,
   imageSent |-> FALSE, audioSent |-> FALSE,
   frameFailed |-> FALSE]

\* the effect of the video streaming loop runs again, with lastSendTime = 0,
\* when one of its dependencies changes
LoopRestarts(s) ==
  \/ s.isVideoActive # isVideoActive
  \/ s.connectionState # connectionState

\* the next state is the record s
Commit(s) ==
  /\ connectionState' = s.connectionState
  /\ error' = s.error
  /\ groundingMetadata' = s.groundingMetadata
  /\ isMuted' = s.isMuted
  /\ isVideoActive' = s.isVideoActive
  /\ videoSource' = s.videoSource
  /\ isUserSpeaking' = s.isUserSpeaking
  /\ isAiSpeaking' = s.isAiSpeaking
  /\ inputAudioContextRef' = s.inputAudioContextRef
  /\ outputAudioContextRef' = s.outputAudioContextRef
  /\ scriptProcessorRef' = s.scriptProcessorRef
  /\ volumeGainNodeRef' = s.volumeGainNodeRef
  /\ mediaStreamRef' = s.mediaStreamRef
  /\ sourcesRef' = s.sourcesRef
  /\ videoStreamRef' = s.videoStreamRef
  /\ currentVolumeRef' = s.currentVolumeRef
  /\ activeSessionRef' = s.activeSessionRef
  /\ nextStartTimeRef' = s.nextStartTimeRef
  /\ currentSessionIdRef' = s.currentSessionIdRef
  /\ groundingTimeoutRef' = s.groundingTimeoutRef
  /\ groundingAge' = s.groundingAge
  /\ pcmData' = s.pcmData
  /\ pcmInt16' = s.pcmInt16
  /\ silenceTimerRef' = s.silenceTimerRef
  /\ aiSpeakingTimerRef' = s.aiSpeakingTimerRef
  /\ speechAccumulatorRef' = s.speechAccumulatorRef
  /\ ctxState' = s.ctxState
  /\ ctxCloses' = s.ctxCloses
  /\ micState' = s.micState
  /\ micStops' = s.micStops
  /\ trackEnabled' = s.trackEnabled
  /\ videoState' = s.videoState
  /\ videoStops' = s.videoStops
  /\ transport' = s.transport
  /\ gain' = s.gain
  /\ processor' = s.processor
  /\ currentTime' = s.currentTime
  /\ srcInfo' = s.srcInfo
  /\ stoppedSrc' = s.stoppedSrc
  /\ endedPending' = s.endedPending
  /\ connectPc' = s.connectPc
  /\ disconnects' = s.disconnects
  /\ handlers' = s.handlers
  /\ cameraPending' = s.cameraPending
  /\ nConnects' = s.nConnects
  /\ nChunks' = s.nChunks
  /\ nVideo' = s.nVideo
  /\ thrown' = s.thrown
  /\ lastSeg' = s.lastSeg
  /\ tornDown' = s.tornDown
  /\ failed' = s.failed
  /\ cancelled' = s.cancelled
  /\ flushed' = s.flushed
  /\ screenPending' = s.screenPending
  /\ videoKind' = s.videoKind
  /\ elapsed' = IF LoopRestarts(s) THEN Never ELSE s.elapsed
  /\ sinceSent' = s.sinceSent
  /\ imageSent' = s.imageSent
  /\ audioSent' = s.audioSent
  /\ frameFailed' = s.frameFailed

\* the current state is the record s
Install(s) ==
  /\ connectionState = s.connectionState
  /\ error = s.error
  /\ groundingMetadata = s.groundingMetadata
  /\ isMuted = s.isMuted
  /\ isVideoActive = s.isVideoActive
  /\ videoSource = s.videoSource
  /\ isUserSpeaking = s.isUserSpeaking
  /\ isAiSpeaking = s.isAiSpeaking
  /\ inputAudioContextRef = s.inputAudioContextRef
  /\ outputAudioContextRef = s.outputAudioContextRef
  /\ scriptProcessorRef = s.scriptProcessorRef
  /\ volumeGainNodeRef = s.volumeGainNodeRef
  /\ mediaStreamRef = s.mediaStreamRef
  /\ sourcesRef = s.sourcesRef
  /\ videoStreamRef = s.videoStreamRef
  /\ currentVolumeRef = s.currentVolumeRef
  /\ activeSessionRef = s.activeSessionRef
  /\ nextStartTimeRef = s.nextStartTimeRef
  /\ currentSessionIdRef = s.currentSessionIdRef
  /\ groundingTimeoutRef = s.groundingTimeoutRef
  /\ groundingAge = s.groundingAge
  /\ pcmData = s.pcmData
  /\ pcmInt16 = s.pcmInt16
  /\ silenceTimerRef = s.silenceTimerRef
  /\ aiSpeakingTimerRef = s.aiSpeakingTimerRef
  /\ speechAccumulatorRef = s.speechAccumulatorRef
  /\ ctxState = s.ctxState
  /\ ctxCloses = s.ctxCloses
  /\ micState = s.micState
  /\ micStops = s.micStops
  /\ trackEnabled = s.trackEnabled
  /\ videoState = s.videoState
  /\ videoStops = s.videoStops
  /\ transport = s.transport
  /\ gain = s.gain
  /\ processor = s.processor
  /\ currentTime = s.currentTime
  /\ srcInfo = s.srcInfo
  /\ stoppedSrc = s.stoppedSrc
  /\ endedPending = s.endedPending
  /\ connectPc = s.connectPc
  /\ disconnects = s.disconnects
  /\ handlers = s.handlers
  /\ cameraPending = s.cameraPending
  /\ nConnects = s.nConnects
  /\ nChunks = s.nChunks
  /\ nVideo = s.nVideo
  /\ thrown = s.thrown
  /\ lastSeg = s.lastSeg
  /\ tornDown = s.tornDown
  /\ failed = s.failed
  /\ cancelled = s.cancelled
  /\ flushed = s.flushed
  /\ screenPending = s.screenPending
  /\ videoKind = s.videoKind
  /\ elapsed = s.elapsed
  /\ sinceSent = s.sinceSent
  /\ imageSent = s.imageSent
  /\ audioSent = s.audioSent
  /\ frameFailed = s.frameFailed

\* the state after the hook is constructed: useState / useRef initial values,
\* no platform object created yet (0 stands for a null ref)
Initial ==
  [connectionState |-> "DISCONNECTED", error |-> "null",
   groundingMetadata |-> "null", isMuted |-> FALSE,
   isVideoActive |-> FALSE, videoSource |-> "none",
   isUserSpeaking |-> FALSE, isAiSpeaking |-> FALSE,
   inputAudioContextRef |-> 0, outputAudioContextRef |-> 0,
   scriptProcessorRef |-> 0, volumeGainNodeRef |-> 0,
   mediaStreamRef |-> 0, sourcesRef |-> {},
   videoStreamRef |-> 0, currentVolumeRef |-> 0,
   activeSessionRef |-> 0, nextStartTimeRef |-> 0,
   currentSessionIdRef |-> 0,
   groundingTimeoutRef |-> "null", groundingAge |-> 0,
   pcmData |-> <<>>, pcmInt16 |-> <<>>,
   silenceTimerRef |-> "null",
   aiSpeakingTimerRef |-> "null", speechAccumulatorRef |-> 0,
   ctxState |-> [x \in Ctxs |-> "none"], ctxCloses |-> [x \in Ctxs |-> 0],
   micState |-> [c \in Sessions |-> "none"],
   micStops |-> [c \in Sessions |-> 0],
   trackEnabled |-> [c \in Sessions |-> TRUE],
   videoState |-> [v \in Videos |-> "none"],
   videoStops |-> [v \in Videos |-> 0],
   transport |-> [c \in Sessions |-> "none"],
   gain |-> [c \in Sessions |-> "full"],
   processor |-> [c \in Sessions |-> "none"],
   currentTime |-> [c \in Sessions |-> 0],
   srcInfo |-> [k \in Chunks |-> [start |-> 0, dur |-> 0, sess |-> 0]],
   stoppedSrc |-> {}, endedPending |-> {},
   connectPc |-> [c \in Sessions |-> "idle"],
   disconnects |-> [d \in DiscKinds |-> 0], handlers |-> {}, cameraPending |-> 0,
   nConnects |-> 0, nChunks |-> 0, nVideo |-> 0,
   thrown |-> "none", lastSeg |-> [start |-> 0, dur |-> 0],
   tornDown |-> FALSE, failed |-> FALSE,
   cancelled |-> [c \in Sessions |-> FALSE], flushed |-> FALSE,
   screenPending |-> 0, videoKind |-> [v \in Videos |-> "none"],
   elapsed |-> Never, sinceSent |-> Never, imageSent |-> FALSE, audioSent |-> FALSE,
   frameFailed |-> FALSE]


\* ------------------------------------------------------------------------
\* Teardown
\* ------------------------------------------------------------------------

\* stopVideo: clear the visual source, stop and forget the visual stream
stopVideo(s) ==
  LET v == s.videoStreamRef IN
  [s EXCEPT !.isVideoActive = FALSE,
            !.videoSource = "none",
            !.videoState = IF v # 0 THEN [@ EXCEPT ![v] = "stopped"] ELSE @,
            !.videoStops = IF v # 0 THEN [@ EXCEPT ![v] = @ + 1] ELSE @,
            !.videoStreamRef = 0,
            !.currentVolumeRef = 0]

\* disconnect, the microphone: every track stopped, the ref cleared
releaseMic(s) ==
  LET m == s.mediaStreamRef IN
  IF m = 0 THEN s
  ELSE [s EXCEPT !.micState[m] = "stopped",
                 !.micStops[m] = @ + 1,
                 !.mediaStreamRef = 0]

\* disconnect, the capture processor: disconnected from the graph (one frame
\* event already posted to the event loop may still be delivered), ref cleared
detachProcessor(s) ==
  LET p == s.scriptProcessorRef IN
  IF p = 0 THEN s
  ELSE [s EXCEPT !.processor[p] = "draining", !.scriptProcessorRef = 0]

\* the handlers suspended at this moment are marked: a flush or a teardown
\* has run since they were suspended
markStale(s) ==
  [s EXCEPT !.handlers = {[h EXCEPT !.stale = TRUE] : h \in @}]

\* every active source is stopped and the active set is cleared
stopSources(s) ==
  [s EXCEPT !.stoppedSrc = @ \cup s.sourcesRef,
            !.sourcesRef = {},
            !.lastSeg = [start |-> 0, dur |-> 0]]

\* clearTimeout on a timer ref: a pending timer can no longer fire; the ref
\* itself keeps its (now dead) handle
clearTimer(t) == IF t = "pending" THEN "dead" ELSE t

clearTimers(s) ==
  [s EXCEPT !.groundingTimeoutRef = clearTimer(@),
            !.silenceTimerRef = clearTimer(@),
            !.aiSpeakingTimerRef = clearTimer(@)]

\* the first lines of connect's try block after its teardown: Connecting, the
\* error cleared, both audio contexts and the gain node created, then the
\* await of the microphone
connectBody(s, c) ==
  [s EXCEPT !.connectionState = "CONNECTING",
            !.error = "null",
            !.ctxState[InCtx(c)] = "running",
            !.ctxState[OutCtx(c)] = "running",
            !.inputAudioContextRef = InCtx(c),
            !.outputAudioContextRef = OutCtx(c),
            !.volumeGainNodeRef = c,
            !.gain[c] = "full",
            !.connectPc[c] = "mic"]

\* a disconnect that ends without touching the connection state
finishKeepState(s, owner) ==
  LET t == [s EXCEPT !.nextStartTimeRef = 0,
                     !.lastSeg = [start |-> 0, dur |-> 0],
                     !.activeSessionRef = 0,
                     !.groundingMetadata = "null",
                     !.isMuted = FALSE,
                     !.isUserSpeaking = FALSE,
                     !.isAiSpeaking = FALSE,
                     !.currentVolumeRef = 0,
                     !.speechAccumulatorRef = 0]
  IN IF owner = 0 THEN [t EXCEPT !.tornDown = TRUE] ELSE connectBody(t, owner)

\* the last lines of disconnect; a connect() awaiting this invocation (owner)
\* resumes in the microtask that follows
finishDisconnect(s, owner) ==
  LET t == [s EXCEPT !.connectionState = "DISCONNECTED",
                     !.nextStartTimeRef = 0,
                     !.lastSeg = [start |-> 0, dur |-> 0],
                     !.activeSessionRef = 0,
                     !.groundingMetadata = "null",
                     !.isMuted = FALSE,
                     !.isUserSpeaking = FALSE,
                     !.isAiSpeaking = FALSE,
                     !.currentVolumeRef = 0,
                     !.speechAccumulatorRef = 0]
  IN IF owner = 0 THEN [t EXCEPT !.tornDown = TRUE] ELSE connectBody(t, owner)

\* an invocation of disconnect suspends at an await of AudioContext.close()
suspendDisconnect(s, at, owner) ==
  [s EXCEPT !.disconnects[[pc |-> at, owner |-> owner]] = @ + 1]

\* AudioContext.close(): the context is closed from now on
closeContext(s, x) ==
  [s EXCEPT !.ctxState[x] = "closed", !.ctxCloses[x] = @ + 1]

\* disconnect, the output context
closeOutput(s, owner) ==
  LET x == s.outputAudioContextRef IN
  IF x = 0 THEN finishDisconnect(s, owner)
  ELSE IF s.ctxState[x] # "closed"
       THEN suspendDisconnect(closeContext(s, x), "output", owner)
       ELSE finishDisconnect([s EXCEPT !.outputAudioContextRef = 0], owner)

\* a teardown that closes the input context without looking at its state
closeInputUnchecked(s, owner) ==
  LET x == s.inputAudioContextRef IN
  IF x = 0 THEN closeOutput(s, owner)
  ELSE suspendDisconnect(closeContext(s, x), "input", owner)

\* disconnect, the input context
closeInput(s, owner) ==
  LET x == s.inputAudioContextRef IN
  IF x = 0 THEN closeOutput(s, owner)
  ELSE IF s.ctxState[x] # "closed"
       THEN suspendDisconnect(closeContext(s, x), "input", owner)
       ELSE closeOutput([s EXCEPT !.inputAudioContextRef = 0], owner)

\* disconnect() from its first line to its first await (or to its end)
disconnect(s, owner) ==
  closeInput(clearTimers(stopSources(detachProcessor(releaseMic(stopVideo(
               markStale([s EXCEPT !.flushed = FALSE])))))),
             owner)

\* disconnect() resumes after an await: the ref of the context it was closing
\* is cleared, whatever it holds by now
resumeDisconnect(s, d) ==
  LET t == [s EXCEPT !.disconnects[d] = @ - 1] IN
  IF d.pc = "input"
  THEN closeOutput([t EXCEPT !.inputAudioContextRef = 0], d.owner)
  ELSE finishDisconnect([t EXCEPT !.outputAudioContextRef = 0], d.owner)

\* ------------------------------------------------------------------------
\* connect
\* ------------------------------------------------------------------------

\* connect(): the session id is minted and made current, then the teardown
connect(s, c) ==
  disconnect([s EXCEPT !.currentSessionIdRef = c,
                       !.nConnects = c,
                       !.connectPc[c] = "teardown",
                       !.tornDown = FALSE,
                       !.failed = FALSE], c)

\* ai.live.connect is called: the transport of session c is being opened
openTransport(s, c) ==
  [s EXCEPT !.transport[c] = "pending", !.connectPc[c] = "done"]

\* the microphone is acquired; connect may then await the resume of its
\* (suspended) audio contexts
micAcquired(s, c, suspended) ==
  LET t == [s EXCEPT !.micState[c] = "live",
                     !.trackEnabled[c] = TRUE,
                     !.mediaStreamRef = c] IN
  IF suspended THEN [t EXCEPT !.connectPc[c] = "resume"]
  ELSE openTransport(t, c)

\* the catch block of connect
connectFailed(s, c) ==
  disconnect([s EXCEPT !.error = "InitFailed",
                       !.connectionState = "ERROR",
                       !.connectPc[c] = "done",
                       !.failed = @ \/ (s.currentSessionIdRef = c)], 0)

\* ------------------------------------------------------------------------
\* Transport callbacks
\* ------------------------------------------------------------------------

\* onopen, with the then-callback of the session promise it registers (the
\* promise is resolved right after onopen returns)
onopen(s, c) ==
  IF s.currentSessionIdRef # c THEN s
  ELSE [s EXCEPT !.activeSessionRef = c,
                 !.connectionState = "CONNECTED",
                 !.scriptProcessorRef = c,
                 !.processor[c] = "attached"]

onerror(s, c) ==
  IF s.currentSessionIdRef # c THEN s
  ELSE disconnect([s EXCEPT !.error = "ConnectionError",
                            !.connectionState = "ERROR",
                            !.failed = TRUE], 0)

onclose(s, c) ==
  IF s.currentSessionIdRef # c THEN s
  ELSE disconnect([s EXCEPT !.connectionState = "DISCONNECTED"], 0)

\* sessionPromise.catch
onreject(s, c) ==
  IF s.currentSessionIdRef # c THEN s
  ELSE disconnect([s EXCEPT !.error = "ConnectFailed",
                            !.connectionState = "ERROR",
                            !.failed = TRUE], 0)


\* ------------------------------------------------------------------------
\* onmessage and the playback scheduler
\* ------------------------------------------------------------------------

\* the output clock of context x (the output context of session x \div 2)
ClockOf(s, x) == s.currentTime[x \div 2]

\* a scheduler that starts every segment at the clock's reading
startTimeNow(cursor, now) == now

\* the start time of a new segment
startTime(cursor, now) == Max(cursor, now)

\* a flush that leaves the cursor where it was
flushKeepCursor(s) ==
  [stopSources(markStale(s)) EXCEPT !.isAiSpeaking = FALSE, !.flushed = TRUE]

\* onmessage, the interrupted branch: the flush
flush(s) ==
  LET t == [stopSources(markStale(s)) EXCEPT !.nextStartTimeRef = 0,
                                  !.isAiSpeaking = FALSE,
                                  !.flushed = TRUE] IN
  IF t.volumeGainNodeRef = 0 THEN t
  ELSE IF t.outputAudioContextRef = 0
       THEN \* outputAudioContextRef.current!.currentTime on a null ref
            [t EXCEPT !.thrown = "onmessage"]
       ELSE [t EXCEPT !.gain[t.volumeGainNodeRef] = "full"]

\* onmessage, the grounding branch
setGrounding(s) ==
  [s EXCEPT !.groundingMetadata = "meta", !.groundingTimeoutRef = "pending",
            !.groundingAge = 0]

\* onmessage, the audio branch after the (optional) await of ctx.resume():
\* the clock is read, the cursor raised to it, and the decode awaited
afterResume(s, h) ==
  [s EXCEPT !.nextStartTimeRef = startTime(@, ClockOf(s, h.ctx)),
            !.handlers = (@ \ {h}) \cup {[h EXCEPT !.pc = "decode"]}]

\* onmessage, the audio branch up to its first await
scheduleAudio(s, c, k, dur, suspended) ==
  LET x == s.outputAudioContextRef
      h == [id |-> k, sess |-> c, ctx |-> x, dur |-> dur, pc |-> "resume",
            stale |-> FALSE]
      t == [s EXCEPT !.nChunks = k, !.handlers = @ \cup {h}]
  IN IF x = 0 THEN [s EXCEPT !.nChunks = k]
     ELSE IF suspended /\ s.ctxState[x] = "running" THEN t
     ELSE afterResume(t, h)

\* onmessage, the audio branch after the decode: the source is started at the
\* cursor, the cursor advances by the duration
afterDecode(s, h) ==
  LET start == s.nextStartTimeRef IN
  [s EXCEPT !.srcInfo[h.id] = [start |-> start, dur |-> h.dur,
                               sess |-> h.ctx \div 2],
            !.nextStartTimeRef = start + h.dur,
            !.sourcesRef = @ \cup {h.id},
            !.endedPending = @ \cup {h.id},
            !.isAiSpeaking = TRUE,
            !.lastSeg = [start |-> start, dur |-> h.dur],
            !.flushed = FALSE,
            !.handlers = @ \ {h}]

\* onmessage of session c for a message with the given parts (k: the chunk
\* id the audio part gets, dur: its duration)
onmessage(s, c, interrupted, grounding, audio, k, dur, suspended) ==
  IF s.currentSessionIdRef # c THEN s
  ELSE LET s1 == IF interrupted THEN flush(s) ELSE s IN
       IF s1.thrown # s.thrown THEN s1
       ELSE LET s2 == IF grounding THEN setGrounding(s1) ELSE s1 IN
            IF audio THEN scheduleAudio(s2, c, k, dur, suspended) ELSE s2

\* the 'ended' listener of source k
onended(s, k) ==
  LET rest == s.sourcesRef \ {k} IN
  [s EXCEPT !.sourcesRef = rest,
            !.endedPending = @ \ {k},
            !.stoppedSrc = @ \ {k},
            !.srcInfo[k] = [start |-> 0, dur |-> 0, sess |-> 0],
            !.aiSpeakingTimerRef = IF rest = {} THEN "pending" ELSE @]

\* the callback of the 200 ms timer set by the 'ended' listener
aiSpeakingTimeout(s) ==
  [s EXCEPT !.isAiSpeaking = IF s.sourcesRef = {} THEN FALSE ELSE @,
            !.aiSpeakingTimerRef = "dead"]

\* the callback of the 6 s grounding timer
groundingTimeout(s) ==
  [s EXCEPT !.groundingMetadata = "null", !.groundingTimeoutRef = "dead"]

\* ------------------------------------------------------------------------
\* onaudioprocess
\* ------------------------------------------------------------------------

\* one threshold for every frame
thresholdLow(aiIsTalking) == TLow

\* the speech threshold of one frame
threshold(aiIsTalking) == IF aiIsTalking THEN THigh ELSE TLow

\* a counter that one speech frame takes past the run of sustained speech
bumpPast(n) == SustainedRun + 1

\* the run-length counter, kept below a cap (only > SustainedRun matters)
bump(n) == IF n > SustainedRun THEN n ELSE n + 1

\* gain.setTargetAtTime on the node held by volumeGainNodeRef
setGain(s, g) ==
  IF s.volumeGainNodeRef = 0 THEN s
  ELSE [s EXCEPT !.gain[s.volumeGainNodeRef] = g]

\* a frame that leaves a pending exit of the speaking state pending
keepSilenceTimer(s) == s

\* a failed send that is escalated like a transport error
sendEscalated(s) ==
  disconnect([s EXCEPT !.frameFailed = TRUE,
                       !.error = "SendError",
                       !.connectionState = "ERROR"], 0)

\* the catch block around the send of one frame: the exception is dropped
sendFailed(s) == [s EXCEPT !.frameFailed = TRUE]

\* sendRealtimeInput on the active transport handle, if there is one, inside
\* its try block: the encoding or the call throws, or the frame goes out
\* when that transport is open
sendAudio(s, throws) ==
  LET a == s.activeSessionRef IN
  IF a = 0 THEN s
  ELSE IF throws THEN sendFailed(s)
  ELSE [s EXCEPT !.audioSent = (s.transport[a] = "open")]

\* a speech frame cancels the silence timer and clears its ref
cancelSilenceTimer(s) == [s EXCEPT !.silenceTimerRef = "null"]

onaudioprocess(s, c, rms, throws) ==
  IF s.currentSessionIdRef # c THEN s
  ELSE LET aiIsTalking == s.sourcesRef # {}
           s1 == [s EXCEPT !.currentVolumeRef = rms] IN
       IF rms > threshold(aiIsTalking)
       THEN LET s2 == [s1 EXCEPT !.speechAccumulatorRef = bump(@)]
                s3 == IF aiIsTalking /\ s2.speechAccumulatorRef > SustainedRun
                      THEN setGain(s2, "ducked") ELSE s2
                s4 == cancelSilenceTimer(s3)
                s5 == IF ~s4.isUserSpeaking
                      THEN [s4 EXCEPT !.isUserSpeaking = TRUE,
                                      !.isAiSpeaking = FALSE]
                      ELSE s4
            IN sendAudio(s5, throws)
       ELSE LET s2 == [s1 EXCEPT !.speechAccumulatorRef = 0]
                s3 == IF s2.isUserSpeaking /\ s2.silenceTimerRef = "null"
                      THEN [s2 EXCEPT !.silenceTimerRef = "pending"]
                      ELSE s2
            IN IF ~aiIsTalking THEN sendAudio(s3, throws) ELSE s3

\* a silence timer that leaves the gain as it is
silenceTimeoutKeepGain(s) ==
  [s EXCEPT !.isUserSpeaking = FALSE, !.silenceTimerRef = "null"]

\* the callback of the 500 ms silence timer
silenceTimeout(s) ==
  setGain([s EXCEPT !.isUserSpeaking = FALSE, !.silenceTimerRef = "null"],
          "full")

\* ------------------------------------------------------------------------
\* Mute and the visual source
\* ------------------------------------------------------------------------

toggleMute(s) ==
  LET m == s.mediaStreamRef IN
  IF m = 0 THEN s
  ELSE [s EXCEPT !.trackEnabled[m] = ~@, !.isMuted = ~@]

\* startCamera up to the await of the camera stream
startCamera(s) ==
  LET t == IF s.videoSource = "screen" THEN stopVideo(s) ELSE s IN
  [t EXCEPT !.cameraPending = @ + 1, !.tornDown = FALSE]

toggleVideo(s) ==
  IF s.videoSource = "camera" THEN stopVideo(s) ELSE startCamera(s)

\* startCamera after the await: the stream is stored and shown
cameraAcquired(s) ==
  LET v == s.nVideo + 1 IN
  [s EXCEPT !.nVideo = v,
            !.cameraPending = @ - 1,
            !.videoState[v] = "live",
            !.videoKind[v] = "camera",
            !.videoStreamRef = v,
            !.isVideoActive = TRUE,
            !.videoSource = "camera"]

\* startCamera, the catch block
cameraFailed(s) ==
  [s EXCEPT !.cameraPending = @ - 1,
            !.error = "CameraError",
            !.isVideoActive = FALSE]

\* startScreenShare up to the await of the display stream
startScreenShare(s) ==
  LET t == IF s.videoSource = "camera" THEN stopVideo(s) ELSE s IN
  [t EXCEPT !.screenPending = @ + 1, !.tornDown = FALSE]

toggleScreenShare(s) ==
  IF s.videoSource = "screen" THEN stopVideo(s) ELSE startScreenShare(s)

\* startScreenShare after the await: the stream is stored and shown
screenAcquired(s) ==
  LET v == s.nVideo + 1 IN
  [s EXCEPT !.nVideo = v,
            !.screenPending = @ - 1,
            !.videoState[v] = "live",
            !.videoKind[v] = "screen",
            !.videoStreamRef = v,
            !.isVideoActive = TRUE,
            !.videoSource = "screen"]

\* startScreenShare, the catch block
screenFailed(s) ==
  [s EXCEPT !.screenPending = @ - 1,
            !.error = "ScreenError",
            !.isVideoActive = FALSE]

\* the onended handler of a screen stream's track: the user stopped the
\* sharing, the track has ended, stopVideo runs
screenEnded(s, v) == stopVideo([s EXCEPT !.videoState[v] = "stopped"])

\* switchCamera: the other facing mode is requested when the camera is the
\* visual source
switchCamera(s) ==
  IF s.videoSource = "camera" THEN startCamera(s) ELSE s

\* ------------------------------------------------------------------------
\* The video streaming loop
\* ------------------------------------------------------------------------

\* the capture interval of one tick
targetInterval(volume, source) ==
  IF volume > VolumeGate \/ source = "screen"
  THEN ShortInterval ELSE LongInterval

\* the video element shows a stream that delivers frames
HasPicture(s) ==
  s.videoStreamRef # 0 /\ s.videoState[s.videoStreamRef] = "live"

\* captureAndSendFrame, one tick of the loop; the capture or the send may
\* throw inside the try block
captureAndSendFrame(s, throws) ==
  IF /\ s.isVideoActive
     /\ s.connectionState = "CONNECTED"
     /\ s.activeSessionRef # 0
     /\ s.elapsed > targetInterval(s.currentVolumeRef, s.videoSource)
     /\ HasPicture(s)
  THEN IF throws THEN sendFailed(s)
       ELSE IF s.transport[s.activeSessionRef] = "open"
            THEN [s EXCEPT !.imageSent = TRUE, !.elapsed = 0,
                           !.sinceSent = 0]
            ELSE s
  ELSE s

\* ------------------------------------------------------------------------
\* Actions: one per task of the event loop
\* ------------------------------------------------------------------------

\* a handler awaiting the decode resumes in a microtask: no task runs before
MicrotaskPending == \E h \in handlers : h.pc = "decode"

\* connect() is invoked, for at most the limit-th time
ConnectWithin(limit) ==
  /\ ~MicrotaskPending
  /\ nConnects < limit
  /\ Commit(connect(State, nConnects + 1))

Connect == ConnectWithin(MaxConnects)

MicAcquired(c) ==
  /\ ~MicrotaskPending
  /\ connectPc[c] = "mic"
  /\ \E suspended \in BOOLEAN :
       /\ suspended => (ctxState[InCtx(c)] = "running"
                        \/ ctxState[OutCtx(c)] = "running")
       /\ Commit(micAcquired(State, c, suspended))

ContextsResumed(c) ==
  /\ ~MicrotaskPending
  /\ connectPc[c] = "resume"
  /\ Commit(openTransport(State, c))

MicFailed(c) ==
  /\ ~MicrotaskPending
  /\ connectPc[c] = "mic"
  /\ Commit(connectFailed(State, c))

\* connect() c is suspended: awaiting its teardown, the microphone, the
\* resume of its contexts, or the opening of its transport
Suspended(s, c) ==
  \/ s.connectPc[c] \in {"teardown", "mic", "resume"}
  \/ s.transport[c] = "pending"

\* disconnect() is invoked by the user of the hook (a command of the
\* presentation layer, the media session's stop, the unmount clean-up)
Disconnect ==
  /\ ~MicrotaskPending
  /\ Sum(disconnects, DiscKinds) < MaxPending
  /\ Commit(disconnect(
       [State EXCEPT !.cancelled =
          [c \in Sessions |-> @[c] \/ Suspended(State, c)]], 0))

DisconnectResumed ==
  /\ ~MicrotaskPending
  /\ \E d \in DiscKinds :
       disconnects[d] > 0 /\ Commit(resumeDisconnect(State, d))

TransportOpen(c) ==
  /\ ~MicrotaskPending
  /\ transport[c] = "pending"
  /\ Commit(onopen([State EXCEPT !.transport[c] = "open"], c))

TransportRejected(c) ==
  /\ ~MicrotaskPending
  /\ transport[c] = "pending"
  /\ Commit(onreject([State EXCEPT !.transport[c] = "rejected"], c))

TransportError(c) ==
  /\ ~MicrotaskPending
  /\ transport[c] \in {"pending", "open"}
  /\ Commit(onerror([State EXCEPT !.transport[c] = "errored"], c))

TransportClose(c) ==
  /\ ~MicrotaskPending
  /\ transport[c] \in {"pending", "open", "errored"}
  /\ Commit(onclose([State EXCEPT !.transport[c] = "closed"], c))

\* a message of session c arrives; parts: the parts a message may carry,
\* limit: the number of audio chunks received in all
Message(c, parts, limit) ==
  /\ ~MicrotaskPending
  /\ transport[c] = "open"
  /\ \E interrupted, grounding, audio, suspended \in BOOLEAN :
     \E dur \in Durations :
       /\ interrupted \/ grounding \/ audio
       /\ interrupted => "interrupted" \in parts
       /\ grounding => "grounding" \in parts
       /\ audio => ("audio" \in parts /\ nChunks < limit)
       /\ ~audio => (dur = 1 /\ ~suspended)
       /\ Commit(onmessage(State, c, interrupted, grounding, audio,
                           nChunks + 1, dur, suspended))

\* the handler h resumes after its await of ctx.resume(), itself a microtask
HandlerResumedOf(h) ==
  /\ h \in handlers
  /\ h.pc = "resume"
  /\ Commit(afterResume(State, h))

\* the handler h resumes after its await of decodeAudioData
HandlerDecodedOf(h) ==
  /\ h \in handlers
  /\ h.pc = "decode"
  /\ Commit(afterDecode(State, h))

HandlerResumed == \E h \in handlers : HandlerResumedOf(h)

HandlerDecoded == \E h \in handlers : HandlerDecodedOf(h)

SourceEnded(k) ==
  /\ ~MicrotaskPending
  /\ k \in endedPending
  /\ \/ k \in stoppedSrc
     \/ /\ ctxState[OutCtx(srcInfo[k].sess)] = "running"
        /\ currentTime[srcInfo[k].sess] >= srcInfo[k].start + srcInfo[k].dur
  /\ Commit(onended(State, k))

AiSpeakingTimeout ==
  /\ ~MicrotaskPending
  /\ aiSpeakingTimerRef = "pending"
  /\ Commit(aiSpeakingTimeout(State))

\* the grounding timer fires when its delay has passed
GroundingTimeout ==
  /\ ~MicrotaskPending
  /\ groundingTimeoutRef = "pending"
  /\ groundingAge = GroundingDelay
  /\ Commit(groundingTimeout(State))

\* time passes while the grounding timer runs
GroundingTime ==
  /\ ~MicrotaskPending
  /\ groundingTimeoutRef = "pending"
  /\ groundingAge < GroundingDelay
  /\ Commit([State EXCEPT !.groundingAge = @ + 1])

\* a capture frame of session c's processor; levels: the energies a frame
\* may have
AudioFrame(c, levels, throws) ==
  /\ ~MicrotaskPending
  /\ \/ processor[c] = "attached" /\ ctxState[InCtx(c)] = "running"
     \/ processor[c] = "draining"
  /\ \E rms \in levels :
       \* a disabled track delivers silence
       /\ trackEnabled[c] \/ rms = 0
       /\ Commit(onaudioprocess(
         [State EXCEPT !.processor[c] =
                         IF @ = "draining" THEN "detached" ELSE @],
         c, rms, throws))

AudioProcess(c, levels) == AudioFrame(c, levels, FALSE)

\* a capture frame whose send throws
AudioProcessThrows(c) == AudioFrame(c, Energies, TRUE)

SilenceTimeout ==
  /\ ~MicrotaskPending
  /\ silenceTimerRef = "pending"
  /\ Commit(silenceTimeout(State))

ToggleMute ==
  /\ ~MicrotaskPending
  /\ Commit(toggleMute(State))

\* streams acquired or requested so far
Requested == nVideo + cameraPending + screenPending

ToggleVideoWithin(limit) ==
  /\ ~MicrotaskPending
  /\ videoSource # "camera" => Requested < limit
  /\ Commit(toggleVideo(State))

ToggleVideo == ToggleVideoWithin(MaxVideo)

CameraAcquired ==
  /\ ~MicrotaskPending
  /\ cameraPending > 0
  /\ Commit(cameraAcquired(State))

CameraFailed ==
  /\ ~MicrotaskPending
  /\ cameraPending > 0
  /\ Commit(cameraFailed(State))

ToggleScreenShare ==
  /\ ~MicrotaskPending
  /\ videoSource # "screen" => Requested < MaxStreams
  /\ Commit(toggleScreenShare(State))

ScreenAcquired ==
  /\ ~MicrotaskPending
  /\ screenPending > 0
  /\ Commit(screenAcquired(State))

ScreenFailed ==
  /\ ~MicrotaskPending
  /\ screenPending > 0
  /\ Commit(screenFailed(State))

ScreenEnded ==
  /\ ~MicrotaskPending
  /\ \E v \in Videos :
       /\ videoState[v] = "live"
       /\ videoKind[v] = "screen"
       /\ Commit(screenEnded(State, v))

SwitchCamera ==
  /\ ~MicrotaskPending
  /\ videoSource = "camera" => Requested < MaxStreams
  /\ Commit(switchCamera(State))

\* the loop runs while the effect that started it is in place
LoopRunning == isVideoActive /\ connectionState = "CONNECTED"

\* one animation frame of the video streaming loop
VideoTick ==
  /\ ~MicrotaskPending
  /\ LoopRunning
  /\ Commit(captureAndSendFrame(State, FALSE))

\* a tick of the video loop whose capture or send throws
VideoTickThrows ==
  /\ ~MicrotaskPending
  /\ LoopRunning
  /\ Commit(captureAndSendFrame(State, TRUE))

\* half a second of wall-clock time passes
VideoTime ==
  /\ LoopRunning
  /\ elapsed < Never \/ sinceSent < Never
  /\ Commit([State EXCEPT !.elapsed = IF @ < Never THEN @ + 1 ELSE @,
                          !.sinceSent = IF @ < Never THEN @ + 1 ELSE @])

\* the output clock of a running context advances
Tick(c) ==
  /\ ctxState[OutCtx(c)] = "running"
  /\ currentTime[c] < MaxClock
  /\ Commit([State EXCEPT !.currentTime[c] = @ + 1])

Init == Install(Initial)

\* the session lifecycle: connect, disconnect and the transport's events
Lifecycle ==
  \/ Connect
  \/ Disconnect
  \/ DisconnectResumed
  \/ \E c \in Sessions : MicAcquired(c)
  \/ \E c \in Sessions : ContextsResumed(c)
  \/ \E c \in Sessions : MicFailed(c)
  \/ \E c \in Sessions : TransportOpen(c)
  \/ \E c \in Sessions : TransportRejected(c)
  \/ \E c \in Sessions : TransportError(c)
  \/ \E c \in Sessions : TransportClose(c)

Next ==
  \/ Lifecycle
  \/ ToggleVideo
  \/ CameraAcquired

Spec == Init /\ [][Next]_vars

\* one session and its playback: chunks and interruptions arrive, the output
\* clock advances, and the transport may close, which runs disconnect()
NextPlay ==
  \/ nConnects = 0 /\ Connect
  \/ \E c \in Sessions : MicAcquired(c)
  \/ \E c \in Sessions : ContextsResumed(c)
  \/ \E c \in Sessions : TransportOpen(c)
  \/ \E c \in Sessions : Message(c, {"audio", "interrupted"}, MaxChunks)
  \/ HandlerResumed
  \/ HandlerDecoded
  \/ \E k \in Chunks : SourceEnded(k)
  \/ \E c \in Sessions : Tick(c)
  \/ \E c \in Sessions : TransportClose(c)
  \/ DisconnectResumed

SpecPlay == Init /\ [][NextPlay]_vars

AllParts == {"interrupted", "grounding", "audio"}

\* two sessions and every callback of a session: the transport's events, its
\* messages with their suspended handlers, and the capture frames
NextFence ==
  \/ Connect
  \/ DisconnectResumed
  \/ \E c \in Sessions : MicAcquired(c)
  \/ \E c \in Sessions : TransportOpen(c)
  \/ \E c \in Sessions : TransportRejected(c)
  \/ \E c \in Sessions : TransportError(c)
  \/ \E c \in Sessions : TransportClose(c)
  \/ \E c \in Sessions : Message(c, AllParts, FenceChunks)
  \/ HandlerResumed
  \/ HandlerDecoded
  \/ \E c \in Sessions : AudioProcess(c, {50})

SpecFence == Init /\ [][NextFence]_vars

\* one session with playback and the voice-activity logic of the capture
\* frames, and disconnect() at any time
NextDuck ==
  \/ nConnects = 0 /\ Connect
  \/ \E c \in Sessions : MicAcquired(c)
  \/ \E c \in Sessions : TransportOpen(c)
  \/ \E c \in Sessions : Message(c, {"audio"}, MaxChunks)
  \/ HandlerResumed
  \/ HandlerDecoded
  \/ \E c \in Sessions : AudioProcess(c, Energies)
  \/ SilenceTimeout
  \/ ToggleMute
  \/ Disconnect
  \/ DisconnectResumed

SpecDuck == Init /\ [][NextDuck]_vars

\* the capture frames of the visual-source specification: the energies of
\* the voice-activity logic and one between the volume gate of the video
\* loop and the lower speech threshold
VideoEnergies == Energies \cup {VolumeGate + 1}

\* one session with the visual sources, the video streaming loop, capture
\* frames and mute, and disconnect() at any time
NextVideo ==
  \/ nConnects = 0 /\ Connect
  \/ \E c \in Sessions : MicAcquired(c)
  \/ \E c \in Sessions : TransportOpen(c)
  \/ ToggleVideoWithin(MaxStreams)
  \/ CameraAcquired
  \/ CameraFailed
  \/ ToggleScreenShare
  \/ ScreenAcquired
  \/ ScreenFailed
  \/ ScreenEnded
  \/ SwitchCamera
  \/ VideoTick
  \/ VideoTime
  \/ \E c \in Sessions : AudioProcess(c, VideoEnergies)
  \/ SilenceTimeout
  \/ ToggleMute
  \/ Disconnect
  \/ DisconnectResumed

SpecVideo == Init /\ [][NextVideo]_vars

\* one session with the camera, whose audio and image frames may fail to be
\* sent, and the events that end it
NextThrow ==
  \/ nConnects = 0 /\ Connect
  \/ \E c \in Sessions : MicAcquired(c)
  \/ \E c \in Sessions : TransportOpen(c)
  \/ ToggleVideo
  \/ CameraAcquired
  \/ VideoTick
  \/ VideoTickThrows
  \/ VideoTime
  \/ \E c \in Sessions : AudioProcess(c, Energies)
  \/ \E c \in Sessions : AudioProcessThrows(c)
  \/ SilenceTimeout
  \/ \E c \in Sessions : TransportClose(c)
  \/ Disconnect
  \/ DisconnectResumed

SpecThrow == Init /\ [][NextThrow]_vars

\* one session with its visual source and mute, torn down by any number of
\* disconnect() invocations: the user's, and those of the transport's error
\* and close events; the camera is requested while the session is held and
\* no other camera request is pending
Established ==
  /\ connectPc[1] = "done"
  /\ transport[1] \in {"open", "errored", "closed"}
  /\ cameraPending = 0

NextTeardown ==
  \/ nConnects = 0 /\ Connect
  \/ \E c \in Sessions : MicAcquired(c)
  \/ \E c \in Sessions : ContextsResumed(c)
  \/ \E c \in Sessions : TransportOpen(c)
  \/ mediaStreamRef # 0 /\ cameraPending = 0 /\ ToggleVideo
  \/ mediaStreamRef # 0 /\ CameraAcquired
  \/ mediaStreamRef # 0 /\ ToggleMute
  \/ Established /\ Disconnect
  \/ Established /\ (\E c \in Sessions : TransportError(c))
  \/ Established /\ (\E c \in Sessions : TransportClose(c))
  \/ DisconnectResumed

SpecTeardown == Init /\ [][NextTeardown]_vars

\* ------------------------------------------------------------------------
\* Properties
\* ------------------------------------------------------------------------

\* the callbacks of session c: the transport's events, its messages with the
\* continuations of their handlers, and the capture frames
CallbackOf(c) ==
  \/ TransportOpen(c)
  \/ TransportRejected(c)
  \/ TransportError(c)
  \/ TransportClose(c)
  \/ Message(c, AllParts, MaxChunks)
  \/ \E h \in handlers : h.sess = c /\ (HandlerResumedOf(h) \/ HandlerDecodedOf(h))
  \/ AudioProcess(c, Energies)

\* C1: a callback of a session other than the current one changes nothing of
\* the connection state, the error text, the active transport handle, the
\* speaking flags, the active playback set, the cursor, the gain, the
\* grounding metadata and the speech run-length counter
Fencing ==
  [][\A c \in Sessions :
       (c # currentSessionIdRef /\ CallbackOf(c)) =>
         UNCHANGED <<connectionState, error, activeSessionRef, isUserSpeaking,
                     isAiSpeaking, sourcesRef, nextStartTimeRef, gain,
                     groundingMetadata, speechAccumulatorRef>>]_vars

\* C2: a segment started after another one, with no flush and no teardown in
\* between, starts no earlier than the other started and no earlier than
\* the other ends
CursorMonotone ==
  [][\A k \in Chunks :
       (k \notin endedPending /\ k \in endedPending') =>
         /\ srcInfo'[k].start >= lastSeg.start
         /\ srcInfo'[k].start >= lastSeg.start + lastSeg.dur]_vars

\* two segments of one session are scheduled in a row, the second after a
\* gap that the advancing clock left behind the first
CursorGap ==
  \E a, b \in sourcesRef :
    /\ a # b
    /\ lastSeg = [start |-> srcInfo[b].start, dur |-> srcInfo[b].dur]
    /\ srcInfo[a].dur > 0
    /\ srcInfo[b].start > srcInfo[a].start + srcInfo[a].dur

\* C3: however many disconnect() invocations interleave, no device is
\* released twice, none raises, and once all of them have completed every
\* device that was held is released
TeardownOnce ==
  /\ \A c \in Sessions : micStops[c] <= 1
  /\ \A x \in Ctxs : ctxCloses[x] <= 1
  /\ \A v \in Videos : videoStops[v] <= 1
  /\ thrown = "none"
  /\ (tornDown /\ Sum(disconnects, DiscKinds) = 0) =>
       /\ \A c \in Sessions : micState[c] # "none" =>
            (micState[c] = "stopped" /\ micStops[c] = 1)
       /\ \A x \in Ctxs : ctxState[x] # "none" =>
            (ctxState[x] = "closed" /\ ctxCloses[x] = 1)
       /\ \A v \in Videos : videoState[v] # "none" =>
            (videoState[v] = "stopped" /\ videoStops[v] = 1)

\* two invocations of disconnect() are suspended at once, at different
\* awaits, after the microphone, a camera and both contexts had been held
TornDownTwice ==
  /\ disconnects[[pc |-> "input", owner |-> 0]] = 1
  /\ disconnects[[pc |-> "output", owner |-> 0]] = 1
  /\ micStops[1] = 1
  /\ videoStops[1] = 1
  /\ ctxCloses[InCtx(1)] = 1
  /\ ctxCloses[OutCtx(1)] = 1

\* no invocation of disconnect() is suspended
Settled == Sum(disconnects, DiscKinds) = 0

\* C4: after a disconnect() has completed, and until connect() or a camera
\* request is started again, no microphone stream is live, no visual stream is live, no capture
\* processor is attached, the active playback set is empty and the
\* connection state is Disconnected
TornDownReleased ==
  tornDown =>
    /\ \A c \in Sessions : micState[c] # "live"
    /\ \A v \in Videos : videoState[v] # "live"
    /\ scriptProcessorRef = 0
    /\ \A c \in Sessions : processor[c] # "attached"
    /\ sourcesRef = {}
    /\ connectionState = "DISCONNECTED"

\* C5: when a disconnect() completes, the transport that the session it
\* disconnected had opened is no longer open
TornDownClosesTransport ==
  [][(~tornDown /\ tornDown') =>
       \A c \in Sessions : transport[c] = "open" => transport'[c] # "open"]_vars

\* the derived state has its initial values
DerivedInitial ==
  /\ currentVolumeRef = 0
  /\ speechAccumulatorRef = 0
  /\ ~isUserSpeaking
  /\ ~isAiSpeaking
  /\ ~isMuted
  /\ nextStartTimeRef = 0
  /\ groundingMetadata = "null"
  /\ activeSessionRef = 0
  /\ volumeGainNodeRef # 0 => gain[volumeGainNodeRef] = "full"

\* C6: the step that completes a disconnect() leaves every piece of derived
\* state at its initial value, and the output gain not ducked
TornDownResetsDerived ==
  [][(~tornDown /\ tornDown') => DerivedInitial']_vars

\* C7: a session whose connect() was suspended when disconnect() ran is
\* never the connected one, and once its connect() and every disconnect()
\* have completed its microphone stream is not live
CancelledStaysDown ==
  \A c \in Sessions :
    cancelled[c] =>
      /\ ~(connectionState = "CONNECTED" /\ activeSessionRef = c)
      /\ (connectPc[c] = "done" /\ Settled) => micState[c] # "live"

\* C8: Connected is entered from Connecting only, Connecting is entered by
\* a connect() reaching its try block only, and Error is entered from
\* Connecting or Connected only
LifecycleTransitions ==
  [][/\ (connectionState' = "CONNECTED" /\ connectionState # "CONNECTED")
          => connectionState = "CONNECTING"
     /\ (connectionState' = "CONNECTING" /\ connectionState # "CONNECTING")
          => \E c \in Sessions : connectPc[c] # "mic" /\ connectPc'[c] = "mic"
     /\ (connectionState' = "ERROR" /\ connectionState # "ERROR")
          => connectionState \in {"CONNECTING", "CONNECTED"}]_vars

\* C9: once a failure of the current session and the teardown it triggers
\* have been handled, and until connect() is invoked again, the connection
\* state is Error and the error text is set
ErrorPersists ==
  (failed /\ Settled) => (connectionState = "ERROR" /\ error # "null")

\* the microphone acquisition of connect() c failed
MicFailedOf(c) == connectPc[c] = "done" /\ micState[c] = "none"

\* C10: a connect() whose microphone acquisition failed opens no transport,
\* is never the connected session, and once every disconnect() has
\* completed neither of the audio contexts it created is still running
MicFailureReleases ==
  \A c \in Sessions :
    MicFailedOf(c) =>
      /\ transport[c] = "none"
      /\ activeSessionRef # c
      /\ Settled => (ctxState[InCtx(c)] # "running"
                      /\ ctxState[OutCtx(c)] # "running")

\* up to MaxSessions overlapping connect() invocations and the failures of
\* their sessions
NextRetry ==
  \/ ConnectWithin(MaxSessions)
  \/ DisconnectResumed
  \/ \E c \in Sessions : MicAcquired(c)
  \/ \E c \in Sessions : MicFailed(c)
  \/ \E c \in Sessions : TransportOpen(c)
  \/ \E c \in Sessions : TransportRejected(c)
  \/ \E c \in Sessions : TransportError(c)
  \/ \E c \in Sessions : TransportClose(c)

SpecRetry == Init /\ [][NextRetry]_vars

\* session c has ended: its transport failed to open, reported an error or
\* closed, or its microphone acquisition failed
Ended(c) ==
  \/ transport[c] \in {"rejected", "errored", "closed"}
  \/ MicFailedOf(c)

\* C11: the session id changes only in a step that invokes connect(), and
\* once the current session has ended the connection state does not become
\* Connecting in a step that does not invoke connect()
NoAutomaticRetry ==
  [][/\ currentSessionIdRef' # currentSessionIdRef => nConnects' = nConnects + 1
     /\ (/\ currentSessionIdRef # 0
         /\ Ended(currentSessionIdRef)
         /\ nConnects' = nConnects)
          => ~(connectionState # "CONNECTING" /\ connectionState' = "CONNECTING")]_vars

\* one session with the voice-activity logic of its capture frames, one
\* chunk of playback that the clock lets end, and the teardown run by the
\* transport's close
NextVad ==
  \/ nConnects = 0 /\ Connect
  \/ \E c \in Sessions : MicAcquired(c)
  \/ \E c \in Sessions : TransportOpen(c)
  \/ \E c \in Sessions : Message(c, {"audio"}, VadChunks)
  \/ HandlerResumed
  \/ HandlerDecoded
  \/ \E k \in Chunks : SourceEnded(k)
  \/ \E c \in Sessions : Tick(c)
  \/ \E c \in Sessions : AudioProcess(c, Energies)
  \/ SilenceTimeout
  \/ \E c \in Sessions : TransportClose(c)
  \/ DisconnectResumed

SpecVad == Init /\ [][NextVad]_vars

\* a capture frame of session c whose energy exceeds the threshold in force
SpeechFrame(c) ==
  AudioProcess(c, {e \in Energies : e > threshold(sourcesRef # {})})

\* C12: while the session is up, a frame of the current session above the
\* threshold makes the user-speaking state true at once and leaves no exit
\* pending; the state turns false only when the silence timer fires; and
\* the timer is started only by a sub-threshold frame during speech
VadHysteresis ==
  [][~tornDown' =>
       /\ \A c \in Sessions :
            (c = currentSessionIdRef /\ SpeechFrame(c)) =>
              (isUserSpeaking' /\ silenceTimerRef' # "pending")
       /\ (isUserSpeaking /\ ~isUserSpeaking') =>
            (silenceTimerRef = "pending" /\ SilenceTimeout)
       /\ (silenceTimerRef # "pending" /\ silenceTimerRef' = "pending") =>
            (isUserSpeaking /\ isUserSpeaking' /\ speechAccumulatorRef' = 0)]_vars

\* the user speaks, a sub-threshold frame has started the exit debounce and
\* the timer has not fired yet
DebounceRunning ==
  /\ connectionState = "CONNECTED"
  /\ isUserSpeaking
  /\ silenceTimerRef = "pending"
  /\ speechAccumulatorRef = 0

\* a capture frame of session c whose energy lies strictly between the two
\* thresholds
MidFrame(c) ==
  AudioProcess(c, {e \in Energies : TLow < e /\ e < THigh})

\* C13: a frame of the current session with an energy strictly between the
\* thresholds counts as speech when the active playback set is empty and as
\* silence when it is not
ThresholdAsymmetry ==
  [][\A c \in Sessions :
       (c = currentSessionIdRef /\ MidFrame(c)) =>
         IF sourcesRef = {}
         THEN speechAccumulatorRef' > 0 /\ isUserSpeaking'
         ELSE speechAccumulatorRef' = 0
              /\ (isUserSpeaking' => isUserSpeaking)]_vars

\* during playback the last frame had an energy between the thresholds and
\* was taken for silence
MidFrameSilenced ==
  /\ connectionState = "CONNECTED"
  /\ sourcesRef # {}
  /\ TLow < currentVolumeRef /\ currentVolumeRef < THigh
  /\ speechAccumulatorRef = 0
  /\ ~isUserSpeaking

\* C14: a speech frame of the current session that completes the run of
\* sustained speech while the active playback set is non-empty empties the
\* set and resets the cursor to no less than the output clock, in that step
SustainedSpeechFlushes ==
  [][\A c \in Sessions :
       (/\ c = currentSessionIdRef
        /\ SpeechFrame(c)
        /\ sourcesRef # {}
        /\ speechAccumulatorRef' > SustainedRun) =>
         (sourcesRef' = {} /\ nextStartTimeRef' >= currentTime'[c])]_vars

\* a message of session c that carries an interruption and nothing else
InterruptedMessage(c) == Message(c, {"interrupted"}, MaxChunks)

\* C15: an interruption of the current session, in its one step, stops
\* every active segment, empties the active set, clears the AI-speaking
\* flag and resets the cursor; and the first segment started after a flush
\* starts at a reading of the output clock, not ahead of it
FlushEffect ==
  [][/\ \A c \in Sessions :
          (c = currentSessionIdRef /\ InterruptedMessage(c)) =>
            /\ sourcesRef' = {}
            /\ sourcesRef \subseteq stoppedSrc'
            /\ ~isAiSpeaking'
            /\ nextStartTimeRef' = 0
     /\ \A k \in Chunks :
          (k \notin endedPending /\ k \in endedPending' /\ flushed) =>
            srcInfo'[k].start <= currentTime[srcInfo'[k].sess]]_vars

\* after a flush a segment was started at the clock's reading, before the
\* time at which a flushed segment would have ended
RestartedAtClock ==
  \E k \in sourcesRef, j \in stoppedSrc :
    /\ transport[currentSessionIdRef] = "open"
    /\ lastSeg = [start |-> srcInfo[k].start, dur |-> srcInfo[k].dur]
    /\ srcInfo[k].start > 0
    /\ srcInfo[k].start < srcInfo[j].start + srcInfo[j].dur

\* a tick of the video loop finds everything it needs to send a frame: an
\* active visual source with a picture and the open transport of a
\* connected session
Sendable ==
  /\ LoopRunning
  /\ activeSessionRef # 0
  /\ transport[activeSessionRef] = "open"
  /\ HasPicture(State)

\* the capture interval by the user-speaking state and the visual source
SpokenInterval ==
  IF isUserSpeaking \/ videoSource = "screen"
  THEN ShortInterval ELSE LongInterval

\* C16: on every tick of the video loop that can send, a frame is sent
\* exactly when the time since the last one exceeds the interval chosen by
\* the user-speaking state and the visual source: short when the user speaks
\* or the screen is shared, long otherwise
ThrottleBySpeaking ==
  [][(VideoTick /\ Sendable) =>
       (imageSent' <=> elapsed > SpokenInterval)]_vars

\* C17: a step in which the user-speaking state turns from false to true,
\* taken while a visual source is active with a picture and the session is
\* connected, sends an image frame in that step, whatever time has passed
\* since the last frame
OnsetCapture ==
  [][(~isUserSpeaking /\ isUserSpeaking' /\ Sendable) => imageSent']_vars

\* the visual streams acquired and not stopped
LiveStreams == {v \in Videos : videoState[v] = "live"}

\* C18: at most one visual stream is live, and a live stream is the one
\* held as the visual stream and of the kind the visual source names
SourceExclusive ==
  /\ Cardinality(LiveStreams) <= 1
  /\ \A v \in LiveStreams : videoStreamRef = v /\ videoKind[v] = videoSource

\* every invocation of disconnect() has run to its end
DisconnectCompleted == tornDown /\ Sum(disconnects, DiscKinds) = 0

\* C19: once disconnect() has completed, no visual stream is live and the
\* visual source is none, until a visual source is requested again
ReleasedAfterDisconnect ==
  DisconnectCompleted => (LiveStreams = {} /\ videoSource = "none")

\* C20: no step taken while the muted flag is set sends an audio frame
\* through the transport, and toggleMute neither stops nor releases the
\* microphone stream
MutedSendsNothing ==
  /\ [][isMuted => ~audioSent']_vars
  /\ [][ToggleMute =>
         (mediaStreamRef' = mediaStreamRef /\ micState' = micState)]_vars

\* a capture frame of session c, of any energy
CaptureFrame(c) == AudioProcess(c, Energies)

\* C21: while the session is connected and not muted, over its open
\* transport, every capture frame of the current session is sent, whatever
\* its classification and whether or not playback is active
EveryFrameSent ==
  [][\A c \in Sessions :
       (/\ CaptureFrame(c)
        /\ c = currentSessionIdRef
        /\ connectionState = "CONNECTED"
        /\ activeSessionRef = c
        /\ transport[c] = "open"
        /\ ~isMuted) => audioSent']_vars

\* C22: of two chunks of one session whose segments are both scheduled, the
\* one received first starts no later than the other
PlaybackOrder ==
  \A a, b \in sourcesRef :
    (a < b /\ srcInfo[a].sess = srcInfo[b].sess) =>
      srcInfo[a].start <= srcInfo[b].start

\* the voice-activity specification with the grace timer of the AI-speaking
\* flag
NextSignal ==
  \/ NextVad
  \/ AiSpeakingTimeout

SpecSignal == Init /\ [][NextSignal]_vars

\* C23: the AI-speaking flag is set whenever the active playback set is
\* non-empty, and a step clears it only when the set was already empty (the
\* grace timer) or is emptied by that step (a flush, a disconnect)
AiSpeakingSignal ==
  /\ [](sourcesRef # {} => isAiSpeaking)
  /\ [][(isAiSpeaking /\ ~isAiSpeaking') =>
         (sourcesRef = {} \/ sourcesRef' = {})]_vars

\* C24: in every state where the connection state is Connected, the
\* microphone stream is held and live, both audio contexts are held and
\* open, and the active transport handle is that of the current session
FullyConnected ==
  connectionState = "CONNECTED" =>
    /\ mediaStreamRef # 0
    /\ micState[mediaStreamRef] = "live"
    /\ inputAudioContextRef # 0
    /\ ctxState[inputAudioContextRef] = "running"
    /\ outputAudioContextRef # 0
    /\ ctxState[outputAudioContextRef] = "running"
    /\ activeSessionRef # 0
    /\ activeSessionRef = currentSessionIdRef

\* a first session, disconnect() invoked during it, and a second connect():
\* every disconnect() of the user is older than the second session
NextStale ==
  \/ Connect
  \/ \E c \in Sessions : MicAcquired(c)
  \/ \E c \in Sessions : TransportOpen(c)
  \/ nConnects = 1 /\ Disconnect
  \/ DisconnectResumed

SpecStale == Init /\ [][NextStale]_vars

\* connect() c has passed its own teardown and created its contexts
Proceeded(c) == connectPc[c] \in {"mic", "resume", "done"}

\* the suspended disconnect() d resumes in this step
ResumedOf(d) == disconnects[d] > 0 /\ disconnects'[d] = disconnects[d] - 1

\* this step leaves session c alone: its contexts keep their state and stay
\* held, its transport handle stays, and the state is not set to Disconnected
Untouched(c) ==
  /\ ctxState'[InCtx(c)] = ctxState[InCtx(c)]
  /\ ctxState'[OutCtx(c)] = ctxState[OutCtx(c)]
  /\ inputAudioContextRef = InCtx(c) => inputAudioContextRef' = InCtx(c)
  /\ outputAudioContextRef = OutCtx(c) => outputAudioContextRef' = OutCtx(c)
  /\ activeSessionRef = c => activeSessionRef' = c
  /\ connectionState # "DISCONNECTED" => connectionState' # "DISCONNECTED"

\* C25: a disconnect() invoked before the current session's connect() (by
\* the user during the first session, or as the teardown of an earlier
\* connect) that resumes after that connect() has proceeded leaves the
\* current session alone
StaleDisconnectHarmless ==
  [][\A c \in Sessions : \A d \in DiscKinds :
       (/\ c = currentSessionIdRef
        /\ c > 1
        /\ Proceeded(c)
        /\ d.owner < c
        /\ ResumedOf(d)) => Untouched(c)]_vars

\* every connect() invoked so far has run to its end, its transport opened
\* or failed, and no disconnect() is suspended
AllFinished ==
  /\ \A c \in Sessions : connectPc[c] \in {"idle", "done"}
  /\ \A c \in Sessions : transport[c] # "pending"
  /\ Settled

\* C26: once two or more connect() invocations have all finished, every
\* live microphone stream and every open audio context belongs to the
\* current session; those of a superseded invocation have been released
ExclusiveOwnership ==
  (nConnects >= 2 /\ AllFinished) =>
    /\ \A c \in Sessions :
         micState[c] = "live" => c = currentSessionIdRef
    /\ \A c \in Sessions :
         (ctxState[InCtx(c)] = "running" \/ ctxState[OutCtx(c)] = "running")
           => c = currentSessionIdRef

\* nothing of any session is held: no live microphone stream, no open audio
\* context, no suspended disconnect()
AllReleased ==
  /\ \A c \in Sessions : micState[c] # "live"
  /\ \A x \in Ctxs : ctxState[x] # "running"
  /\ Settled

\* C27: the step of connect() that mints the new session id, and the step
\* in which a connect() enters Connecting and creates its contexts, are
\* taken only when the teardown of everything held before is complete
TeardownBeforeMint ==
  [][/\ currentSessionIdRef' # currentSessionIdRef => AllReleased
     /\ \A c \in Sessions :
          (~Proceeded(c) /\ Proceeded(c)') =>
            /\ \A b \in Sessions : micState[b] # "live"
            /\ \A b \in Sessions \ {c} :
                 ctxState'[InCtx(b)] # "running"
                 /\ ctxState'[OutCtx(b)] # "running"
            /\ Settled']_vars

\* C28: a step in which the send of an audio frame or the capture or send of
\* an image frame throws leaves the connection state, the error text and the
\* session id as they were, starts no teardown, and keeps the capture
\* processor attached and the video loop running
FrameFailureAbsorbed ==
  [][frameFailed' =>
       /\ connectionState' = connectionState
       /\ error' = error
       /\ currentSessionIdRef' = currentSessionIdRef
       /\ disconnects' = disconnects
       /\ tornDown' = tornDown
       /\ mediaStreamRef' = mediaStreamRef
       /\ \A c \in Sessions :
            processor[c] = "attached" => processor'[c] = "attached"
       /\ LoopRunning => LoopRunning']_vars

\* the send of a frame has just thrown in a connected session whose capture
\* processor stays attached
FrameFailedConnected ==
  /\ frameFailed
  /\ connectionState = "CONNECTED"
  /\ activeSessionRef # 0
  /\ processor[activeSessionRef] = "attached"

\* C29: a step sends an image frame only from a state where a visual source
\* is active, the connection state is Connected and no disconnect() has
\* begun
ImageOnlyWhileActive ==
  [][imageSent' =>
       /\ isVideoActive
       /\ videoSource # "none"
       /\ connectionState = "CONNECTED"
       /\ Settled]_vars

\* C30: a step sends an audio frame only from a state where the connection
\* state is Connected, the active transport handle is set, no disconnect()
\* has begun and not completed, and none was invoked while the connect() of
\* that session was suspended
AudioOnlyWhileConnected ==
  [][audioSent' =>
       /\ connectionState = "CONNECTED"
       /\ activeSessionRef # 0
       /\ ~cancelled[activeSessionRef]
       /\ Settled]_vars

\* C31: a step sends an image frame only when at least the interval in
\* force at that step has passed since the previous image frame was sent,
\* whatever happened to the visual source in between
Throttle ==
  [][imageSent' =>
       sinceSent >= targetInterval(currentVolumeRef, videoSource)]_vars

\* the handler h finishes in this step: it was suspended and is gone
Finishes(h) == h \in handlers /\ h.pc = "decode" /\ h \notin handlers'

\* a flush or a disconnect() ran, or a newer session became current, while
\* the handler h was suspended
Overtaken(h) == h.stale \/ h.sess # currentSessionIdRef

\* C32: a handler that was overtaken while suspended and then continues
\* starts no segment: its chunk does not enter the active playback set, the
\* cursor is not advanced and the AI-speaking flag is not set
StaleChunkDiscarded ==
  [][\A h \in handlers :
       (Overtaken(h) /\ Finishes(h)) =>
         /\ h.id \notin sourcesRef'
         /\ nextStartTimeRef' = nextStartTimeRef
         /\ isAiSpeaking' = isAiSpeaking]_vars

\* C33: a segment is started at a time no earlier than the reading of its
\* output clock in the step that starts it
StartsNoEarlierThanClock ==
  [][\A k \in Chunks :
       (k \notin endedPending /\ k \in endedPending') =>
         srcInfo'[k].start >= currentTime'[srcInfo'[k].sess]]_vars

\* the output gain of some session is ducked in this step
Ducks == \E c \in Sessions : gain[c] # "ducked" /\ gain'[c] = "ducked"

\* a capture frame of the current session classified as silence
SilenceFrame(c) ==
  /\ c = currentSessionIdRef
  /\ AudioProcess(c, {e \in Energies : e <= threshold(sourcesRef # {})})

\* C34: the gain is ducked only by a step taken with the active playback set
\* non-empty that brings the run of consecutive speech frames above two,
\* at least two speech frames having come right before it; and every
\* silence frame of the current session resets the run to zero
SpikeRejection ==
  [][/\ Ducks =>
          /\ sourcesRef # {}
          /\ speechAccumulatorRef >= SustainedRun
          /\ speechAccumulatorRef' > SustainedRun
     /\ \A c \in Sessions :
          SilenceFrame(c) => speechAccumulatorRef' = 0]_vars

\* the gain is ducked over active playback after a run of speech frames
DuckedOverPlayback ==
  /\ sourcesRef # {}
  /\ speechAccumulatorRef > SustainedRun
  /\ volumeGainNodeRef # 0
  /\ gain[volumeGainNodeRef] = "ducked"

\* the gain node of the session is ducked
Ducked == volumeGainNodeRef # 0 /\ gain[volumeGainNodeRef] = "ducked"

\* C35: in a connected session the gain is ducked only while the
\* user-speaking state is true, and a step in which the user-speaking state
\* returns to false within the connected session leaves the gain full
GainRestore ==
  /\ []((connectionState = "CONNECTED" /\ Ducked) => isUserSpeaking)
  /\ [][(/\ isUserSpeaking /\ ~isUserSpeaking'
          /\ connectionState' = "CONNECTED") => ~Ducked']_vars

\* the gain is ducked in a connected session and the exit debounce of the
\* user-speaking state is running
DuckedDebouncing ==
  /\ connectionState = "CONNECTED"
  /\ Ducked
  /\ isUserSpeaking
  /\ silenceTimerRef = "pending"

\* the session lifecycle, where every awaited close of an audio context
\* settles (resolved or rejected) and the suspended disconnect() resumes
NextLive ==
  \/ nConnects = 0 /\ Connect
  \/ Disconnect
  \/ DisconnectResumed
  \/ \E c \in Sessions : MicAcquired(c)
  \/ \E c \in Sessions : ContextsResumed(c)
  \/ \E c \in Sessions : MicFailed(c)
  \/ \E c \in Sessions : TransportOpen(c)
  \/ \E c \in Sessions : TransportRejected(c)
  \/ \E c \in Sessions : TransportError(c)
  \/ \E c \in Sessions : TransportClose(c)

SpecLive == Init /\ [][NextLive]_vars /\ WF_vars(DisconnectResumed)

\* the number of suspended invocations of disconnect()
Pending == Sum(disconnects, DiscKinds)

\* a suspended disconnect() of the user or of a callback ends in this step
EndsResumed ==
  /\ Pending' < Pending
  /\ \E d \in DiscKinds : d.owner = 0 /\ disconnects'[d] < disconnects[d]

\* disconnect() is invoked by the user or from a callback of the current
\* session (error, close, rejection, the catch block of connect) and runs
\* to its end in the same step
EndsAtOnce ==
  /\ Pending' = Pending
  /\ \/ Disconnect
     \/ \E c \in Sessions :
          /\ c = currentSessionIdRef
          /\ TransportError(c) \/ TransportClose(c) \/ TransportRejected(c)
     \/ \E c \in Sessions : MicFailed(c)

\* C36: every invocation of disconnect() by the user or by a callback ends
\* with the connection state Disconnected, whether it had to await a close
\* or found the contexts closed or absent; the end of a disconnect() starts
\* no other one; and every suspended disconnect() comes to its end
DisconnectTerminates ==
  /\ [][(EndsResumed \/ EndsAtOnce) =>
          connectionState' = "DISCONNECTED"]_vars
  /\ [][Pending' < Pending => Pending' = Pending - 1]_vars
  /\ (~Settled) ~> Settled

\* a disconnect() invoked from the error callback of a session has awaited
\* its closes and has ended
EndedAfterError ==
  /\ \E c \in Sessions : transport[c] = "errored" /\ ctxCloses[InCtx(c)] > 0
  /\ tornDown
  /\ Settled
  /\ connectionState = "DISCONNECTED"

\* one session with its grounding events, the grounding timer, and
\* disconnect() by the user or from the close callback
NextGround ==
  \/ nConnects = 0 /\ Connect
  \/ \E c \in Sessions : MicAcquired(c)
  \/ \E c \in Sessions : TransportOpen(c)
  \/ \E c \in Sessions : Message(c, {"grounding", "interrupted"}, 0)
  \/ GroundingTime
  \/ GroundingTimeout
  \/ \E c \in Sessions : TransportClose(c)
  \/ Disconnect
  \/ DisconnectResumed

SpecGround == Init /\ [][NextGround]_vars

\* the metadata is cleared in this step and no disconnect() did it
ClearedByTimer ==
  /\ groundingMetadata = "meta"
  /\ groundingMetadata' = "null"
  /\ Pending' = Pending
  /\ tornDown' = tornDown

\* C37: metadata is cleared by the timer only when 6 s have passed since
\* the most recent grounding event; when a disconnect() has ended, the timer
\* is cancelled and the metadata absent, and stays absent until connect()
GroundingLifetime ==
  /\ [][ClearedByTimer => groundingAge = GroundingDelay]_vars
  /\ [](DisconnectCompleted =>
          groundingMetadata = "null" /\ groundingTimeoutRef # "pending")

\* a connect() passes its teardown in this step and runs the first lines of
\* its try block
Proceeds == \E c \in Sessions : ~Proceeded(c) /\ Proceeded(c)'

NextMute ==
  \/ NextStale
  \/ ToggleMute

SpecMute == Init /\ [][NextMute]_vars

\* C39: without a microphone stream toggleMute changes nothing, with one it
\* flips the muted flag and the enabled bit of the stream's track, and
\* whenever a microphone stream is held the muted flag is true exactly when
\* that track is disabled
MuteConsistent ==
  /\ [][ToggleMute =>
          IF mediaStreamRef = 0 THEN UNCHANGED vars
          ELSE /\ isMuted' = ~isMuted
               /\ trackEnabled'[mediaStreamRef] = ~trackEnabled[mediaStreamRef]
               /\ mediaStreamRef' = mediaStreamRef]_vars
  /\ [](mediaStreamRef # 0 => (isMuted <=> ~trackEnabled[mediaStreamRef]))

\* ------------------------------------------------------------------------
\* createPcmBlob

\* linear samples in [-1, 1], as numerators over SampleUnit
Samples == (0 - SampleUnit)..SampleUnit

\* buffers of up to MaxSamples samples
Buffers == UNION {[1..n -> Samples] : n \in 0..MaxSamples}

\* the integer part of n / d, rounded towards zero
Truncate(n, d) == IF n >= 0 THEN n \div d ELSE 0 - ((0 - n) \div d)

\* the value an Int16Array element holds after the number v is stored in it:
\* v modulo 2^16, read as a two's-complement 16-bit value
ToInt16(v) ==
  LET m == v % Int16Modulus IN
  IF m >= Int16Modulus \div 2 THEN m - Int16Modulus ELSE m

\* int16[i] = data[i] * 32768
createPcmBlob(data) ==
  [i \in 1..Len(data) |-> ToInt16(Truncate(data[i] * PcmScale, SampleUnit))]

\* a buffer of samples arrives
InitPcm == \E data \in Buffers : Install([Initial EXCEPT !.pcmData = data])

\* the buffer is encoded
CreatePcmBlob ==
  /\ pcmData # <<>>
  /\ pcmInt16 = <<>>
  /\ Commit([State EXCEPT !.pcmInt16 = createPcmBlob(pcmData)])

SpecPcm == InitPcm /\ [][CreatePcmBlob]_vars

\* C40: every encoded value is the sample times 32768, rounded towards
\* zero, and has the sign of the sample: never negative for a positive
\* sample, never positive for a negative one
PcmNoWrap ==
  \A i \in 1..Len(pcmInt16) :
    /\ pcmInt16[i] = Truncate(pcmData[i] * PcmScale, SampleUnit)
    /\ pcmData[i] > 0 => pcmInt16[i] > 0
    /\ pcmData[i] < 0 => pcmInt16[i] < 0
====
